---- MODULE Spec2Model ----
(***************************************************************************)
(* OpenAI -> NVIDIA NIM proxy: the POST /v1/chat/completions handler of    *)
(* the two variants of the repository, src/server.js ("server") and        *)
(* src/unnamed/part_000 ("simple").                                        *)
(*                                                                         *)
(* Text is a sequence of one-character strings.  A floating temperature is *)
(* kept in tenths (0.7 is 7).  An optional JSON field is <<>> when absent  *)
(* and <<v>> when present.                                                 *)
(***************************************************************************)
EXTENDS Integers, Sequences, FiniteSets, TLC

VARIABLES
  variant,          \* which file runs: "server" or "simple"
  FORCE_STREAMING,  \* src/server.js:18 (the simple variant has no such toggle)
  SHOW_THINKING,    \* src/server.js:21
  req,              \* req.body
  pc,               \* position of the async handler
  nimRequest,       \* body of the outbound call
  axiosConfig,      \* responseType and timeout of the outbound call
  error,            \* the error caught at `catch (error)`
  resStatus,        \* res.status(...)
  resHeaders,       \* Content-Type set on the downstream response
  resBody,          \* argument of res.json(...)
  out,              \* the res.write calls, in order
  resEnded,         \* number of res.end() calls
  upstream,         \* the text the backend sends on response.data
  pos,              \* how much of it has been delivered in 'data' events
  streamState,      \* response.data: "none", "flowing", "ended", "errored"
  destroyed,        \* response.data.destroy() was called
  buffer,           \* `let buffer` of the streaming branch
  responseData,     \* response.data of a JSON answer
  relays,           \* the streaming requests in flight side by side
  buffers,          \* the `buffer` binding of each of them
  clientClosed      \* the request's 'close' event has fired

vars == <<variant, FORCE_STREAMING, SHOW_THINKING, req, pc, nimRequest,
          axiosConfig, error, resStatus, resHeaders, resBody, out, resEnded,
          upstream, pos, streamState, destroyed, buffer, responseData,
          clientClosed, relays, buffers>>

reqVars == <<variant, FORCE_STREAMING, SHOW_THINKING, req>>
streamVars == <<out, resEnded, upstream, pos, streamState, destroyed, buffer>>

----------------------------------------------------------------------------
(* Bounds *)

\* most lines in one upstream stream
MaxLines == 2

----------------------------------------------------------------------------
(* Values *)

Absent == <<>>
Some(v) == <<v>>

Last(s) == s[Len(s)]
Front(s) == SubSeq(s, 1, Len(s) - 1)

RECURSIVE Flatten(_)
Flatten(ss) == IF ss = <<>> THEN <<>> ELSE Head(ss) \o Flatten(Tail(ss))

SetMin(S) == CHOOSE x \in S : \A y \in S : x <= y
SetMax(S) == CHOOSE x \in S : \A y \in S : x >= y

----------------------------------------------------------------------------
(* JavaScript string primitives used by the handlers *)

NL == "\n"

\* String.prototype.split('\n')
RECURSIVE Split(_)
Split(s) ==
  LET nls == {i \in 1..Len(s) : s[i] = NL} IN
  IF nls = {} THEN <<s>>
  ELSE LET i == SetMin(nls) IN
       <<SubSeq(s, 1, i - 1)>> \o Split(SubSeq(s, i + 1, Len(s)))

WhiteSpace == {" ", "\r", "\t", NL}

\* String.prototype.trim()
Trim(s) ==
  LET keep == {i \in 1..Len(s) : s[i] \notin WhiteSpace} IN
  IF keep = {} THEN <<>> ELSE SubSeq(s, SetMin(keep), SetMax(keep))

\* String.prototype.startsWith(p)
StartsWith(s, p) == Len(s) >= Len(p) /\ SubSeq(s, 1, Len(p)) = p

\* String.prototype.substring(n)
Substring(s, n) == SubSeq(s, n + 1, Len(s))

DataPrefix == <<"d", "a", "t", "a", ":", " ">>
DONE == <<"[", "D", "O", "N", "E", "]">>

----------------------------------------------------------------------------
(* Model resolution: src/server.js 143-147, src/unnamed/part_000 113-118 *)

\* A representative part of the table of each variant (aliases included);
\* 'qwq-32b' is the key the two files map differently.
MODEL_MAPPING(v) ==
  [k \in {"gpt-4", "gpt-4o", "kimi", "qwq-32b"} |->
     CASE k = "gpt-4"   -> "meta/llama-3.3-70b-instruct"
       [] k = "gpt-4o"  -> "meta/llama-3.3-70b-instruct"
       [] k = "kimi"    -> "moonshotai/kimi-k2-instruct"
       [] k = "qwq-32b" -> IF v = "server" THEN "qwen/qwq-32b-preview"
                                          ELSE "qwen/qwq-32b"]

\* MODEL_MAPPING is an object literal: a name it does not own is looked up
\* on Object.prototype.
ObjectPrototype == {"toString", "constructor", "__proto__", "valueOf"}

\* MODEL_MAPPING[model]
PropertyLookup(v, model) ==
  IF model \in DOMAIN MODEL_MAPPING(v)
    THEN [t |-> "string", s |-> MODEL_MAPPING(v)[model]]
  ELSE IF model \in ObjectPrototype
    THEN [t |-> "object", s |-> model]
  ELSE [t |-> "undefined", s |-> ""]

\* let nimModel = MODEL_MAPPING[model]; if (!nimModel) nimModel = model;
ResolveModel(v, model) ==
  LET nimModel == PropertyLookup(v, model) IN
  IF nimModel.t = "undefined" \/ (nimModel.t = "string" /\ nimModel.s = "")
    THEN [t |-> "string", s |-> model]
    ELSE nimModel

\* nimModel.includes(sub), over the backend names of this model
Includes(s, sub) ==
  \/ sub = "kimi" /\ s \in {"moonshotai/kimi-k2-instruct"}
  \/ sub = "glm"  /\ s \in {"z-ai/glm4.7"}

\* nimModel.includes(...) throws a TypeError on a value that is no string
ResolveThrows(v, model) ==
  v = "server" /\ ResolveModel(v, model).t # "string"

----------------------------------------------------------------------------
(* Request transcoding: src/server.js 151-176, src/unnamed/part_000 122-138 *)

DefaultTemperature(v) == IF v = "server" THEN 7 ELSE 6
DefaultMaxTokens == 4096
NoTimeout == 0
DefaultTimeout == 180000

\* a || d, for an optional number
OrNumber(a, d) == IF a = Absent \/ a[1] = 0 THEN d ELSE a[1]

\* const shouldStream = FORCE_STREAMING || stream   (server)
\* stream || false                                  (simple, line 128)
ShouldStream(v, force, stream) ==
  IF v = "server"
    THEN (IF force THEN Some(TRUE) ELSE stream)
    ELSE (IF stream = Some(TRUE) THEN stream ELSE Some(FALSE))

Truthy(b) == b = Some(TRUE)

BuildRequest(v, force, body) ==
  [model       |-> ResolveModel(v, body.model),
   messages    |-> body.messages,
   temperature |-> OrNumber(body.temperature, DefaultTemperature(v)),
   max_tokens  |-> OrNumber(body.max_tokens, DefaultMaxTokens),
   stream      |-> ShouldStream(v, force, body.stream)]

\* the branch taken at `if (shouldStream)` / `if (stream)`
StreamBranch(v, force, body) ==
  IF v = "server" THEN Truthy(ShouldStream(v, force, body.stream))
                  ELSE Truthy(body.stream)

\* a configuration whose response type follows the client's stream field
\* whatever FORCE_STREAMING says
BuildConfigClientStream(v, force, body) ==
  [responseType |-> IF Truthy(body.stream) THEN "stream" ELSE "json",
   timeout |->
     IF v = "server"
       THEN (IF \/ Includes(ResolveModel(v, body.model).s, "kimi")
                \/ Includes(ResolveModel(v, body.model).s, "glm")
               THEN NoTimeout ELSE DefaultTimeout)
       ELSE NoTimeout]

BuildConfig(v, force, body) ==
  [responseType |-> IF StreamBranch(v, force, body) THEN "stream" ELSE "json",
   timeout |->
     IF v = "server"
       THEN (IF \/ Includes(ResolveModel(v, body.model).s, "kimi")
                \/ Includes(ResolveModel(v, body.model).s, "glm")
               THEN NoTimeout ELSE DefaultTimeout)
       ELSE NoTimeout]

----------------------------------------------------------------------------
(* Error mapping: src/server.js 273-288, src/unnamed/part_000 195-210 *)

NoError == [kind |-> "none", status |-> 0, detail |-> Absent, message |-> ""]

\* a mapping that answers 500 whatever the backend said
ErrorStatusAlways500(e) == 500

\* error.response?.status || 500
ErrorStatus(e) == IF e.kind = "http" /\ e.status # 0 THEN e.status ELSE 500

\* error.response?.data?.detail || error.message || 'Internal server error'
ErrorMessage(e) ==
  IF e.kind = "http" /\ e.detail # Absent /\ e.detail[1] # "" THEN e.detail[1]
  ELSE IF e.message # "" THEN e.message
  ELSE "Internal server error"

ModelAttempted(body) == body.model

ErrorEnvelope(e, body) ==
  [kind |-> "error",
   message |-> <<"NVIDIA API Error: ", ErrorMessage(e)>>,
   type |-> "invalid_request_error",
   code |-> ErrorStatus(e),
   model_attempted |-> ModelAttempted(body)]

----------------------------------------------------------------------------
(* Response reshaping: src/server.js 248-271, src/unnamed/part_000 170-193 *)

ZeroUsage == [prompt_tokens |-> 0, completion_tokens |-> 0, total_tokens |-> 0]

ReshapeChoice(choice) ==
  [index |-> choice.index,
   message |-> [role |-> choice.role,
                content |-> IF choice.content = Absent THEN "" ELSE choice.content[1]],
   finish_reason |-> choice.finish_reason]

\* a reshaper that reports the backend model the name resolved to
ReshapeResolvedModel(data, body) ==
  [kind |-> "chat.completion",
   model |-> ResolveModel("server", body.model).s,
   choices |-> [i \in 1..Len(data.choices[1]) |-> ReshapeChoice(data.choices[1][i])],
   usage |-> IF data.usage = Absent THEN ZeroUsage ELSE data.usage[1]]

Reshape(data, body) ==
  [kind |-> "chat.completion",
   model |-> body.model,
   choices |-> [i \in 1..Len(data.choices[1]) |-> ReshapeChoice(data.choices[1][i])],
   usage |-> IF data.usage = Absent THEN ZeroUsage ELSE data.usage[1]]

----------------------------------------------------------------------------
(* The streaming data handler: src/server.js 185-227,                      *)
(* src/unnamed/part_000 146-158                                            *)

\* One letter stands for one JSON text of an upstream event:
\*   J  {"choices":[{"delta":{"content":"hi"}}]}
\*   R  {"choices":[{"delta":{"reasoning_content":"hm"}}]}
\*   E  {"choices":[{"delta":{"reasoning_content":"","content":"hi"}}]}
\*   S  {"choices":[{"delta":{"content":"a"}},{"delta":{"reasoning_content":"hm"}}]}
\*   U  {"id":"chatcmpl-1"}       (an object without choices)
\*   N  null
\*   X  {"choices":[{"delta"     (cut off: no JSON text)
Delta(rc, content) == Some([reasoning_content |-> rc, content |-> content])

\* JSON.parse(dataContent): ok is FALSE when it throws a SyntaxError; white
\* space around the JSON text is allowed; null is TRUE for the value null,
\* of which no property can be read
JSONparse(s) ==
  LET t == Trim(s)
      Object(choices) == [ok |-> TRUE, null |-> FALSE, choices |-> choices]
  IN CASE t = <<"J">> -> Object(Some(<<[delta |-> Delta(Absent, Some("hi"))]>>))
       [] t = <<"R">> -> Object(Some(<<[delta |-> Delta(Some("hm"), Absent)]>>))
       [] t = <<"E">> -> Object(Some(<<[delta |-> Delta(Some(""), Some("hi"))]>>))
       [] t = <<"S">> -> Object(Some(<<[delta |-> Delta(Absent, Some("a"))],
                                      [delta |-> Delta(Some("hm"), Absent)]>>))
       [] t = <<"U">> -> Object(Absent)
       [] t = <<"N">> -> [ok |-> TRUE, null |-> TRUE, choices |-> Absent]
       [] OTHER -> [ok |-> FALSE, null |-> FALSE, choices |-> Absent]

\* a filter with the toggle inverted
SkippedWhenShown(show, dataContent) ==
  LET parsed == JSONparse(dataContent) IN
  /\ parsed.ok
  /\ ~parsed.null
  /\ parsed.choices # Absent
  /\ Len(parsed.choices[1]) >= 1
  /\ show
  /\ LET delta == parsed.choices[1][1].delta IN
     /\ delta # Absent
     /\ delta[1].reasoning_content # Absent
     /\ delta[1].reasoning_content[1] # ""

\* !SHOW_THINKING && delta && delta.reasoning_content, inside
\* `if (parsed.choices && parsed.choices[0])`: the event is skipped
Skipped(show, dataContent) ==
  LET parsed == JSONparse(dataContent) IN
  /\ parsed.ok
  /\ ~parsed.null
  /\ parsed.choices # Absent
  /\ Len(parsed.choices[1]) >= 1
  /\ ~show
  /\ LET delta == parsed.choices[1][1].delta IN
     /\ delta # Absent
     /\ delta[1].reasoning_content # Absent
     /\ delta[1].reasoning_content[1] # ""

Event(dataContent) == DataPrefix \o dataContent \o <<NL, NL>>

\* a handler that tests and forwards the line as received, untrimmed
ForwardServerUntrimmed(show, line) ==
  IF ~StartsWith(line, DataPrefix) THEN <<>>
  ELSE LET dataContent == Substring(line, 6) IN
       IF dataContent = DONE THEN <<Event(DONE)>>
       ELSE IF Skipped(show, dataContent) THEN <<>>
       ELSE <<Event(dataContent)>>

\* a handler whose catch block drops the event it could not inspect
ForwardServerDropsUnparsed(show, line) ==
  LET trimmedLine == Trim(line) IN
  IF ~StartsWith(trimmedLine, DataPrefix) THEN <<>>
  ELSE LET dataContent == Substring(trimmedLine, 6) IN
       IF dataContent = DONE THEN <<Event(DONE)>>
       ELSE IF ~JSONparse(dataContent).ok \/ JSONparse(dataContent).null THEN <<>>
       ELSE IF Skipped(show, dataContent) THEN <<>>
       ELSE <<Event(dataContent)>>

\* the body of lines.forEach in src/server.js: the texts it writes
ForwardServer(show, line) ==
  LET trimmedLine == Trim(line) IN
  IF ~StartsWith(trimmedLine, DataPrefix) THEN <<>>
  ELSE LET dataContent == Substring(trimmedLine, 6) IN
       IF dataContent = DONE THEN <<Event(DONE)>>
       ELSE IF Skipped(show, dataContent) THEN <<>>
       ELSE <<Event(dataContent)>>

\* the body of lines.forEach in src/unnamed/part_000
ForwardSimple(line) ==
  IF StartsWith(line, DataPrefix) THEN <<line \o <<NL>>>> ELSE <<>>

Forward(v, show, line) ==
  IF v = "server" THEN ForwardServer(show, line) ELSE ForwardSimple(line)

\* a handler that forwards the unterminated last line as well
CompleteLinesAndTail(lines) == lines

\* lines.forEach(...) over the lines left after lines.pop()
CompleteLines(lines) == Front(lines)

\* a handler that forgets the unterminated tail of the chunk
RemainderDropped(lines) == <<>>

\* a handler that keeps the unterminated tail trimmed
RemainderTrimmed(lines) == Trim(Last(lines))

\* buffer = lines.pop() || ''
Remainder(lines) == Last(lines)

Written(by, texts) == [i \in 1..Len(texts) |-> [by |-> by, text |-> texts[i]]]

ForwardAll(v, show, lines) ==
  Flatten([i \in 1..Len(lines) |-> Forward(v, show, lines[i])])

----------------------------------------------------------------------------
(* Inputs *)

Configs ==
  {[variant |-> "server", force |-> f, show |-> s] : f \in BOOLEAN, s \in BOOLEAN}
  \cup {[variant |-> "simple", force |-> FALSE, show |-> TRUE]}

Messages ==
  {<<[role |-> "user", content |-> "hi"]>>,
   <<[role |-> "system", content |-> "be brief"], [role |-> "user", content |-> "hi"]>>}

ClientModels ==
  {"gpt-4", "gpt-4o", "kimi", "qwq-32b",
   "meta/llama-3.1-8b-instruct", "z-ai/glm4.7", "toString", ""}

Requests ==
  [model : ClientModels,
   messages : Messages,
   temperature : {Absent, Some(0), Some(10)},
   max_tokens : {Absent, Some(0), Some(256)},
   stream : {Absent, Some(TRUE), Some(FALSE)}]

\* the requests followed through the whole relay: FORCE_STREAMING as
\* src/server.js sets it, for a client that asked for no stream, with both
\* settings of SHOW_THINKING; the simple variant with and without stream;
\* src/server.js without FORCE_STREAMING and without stream
RelayBody(stream) ==
  [model |-> "gpt-4", messages |-> <<[role |-> "user", content |-> "hi"]>>,
   temperature |-> Absent, max_tokens |-> Absent, stream |-> stream]

RelayInputs ==
  {[config |-> [variant |-> "server", force |-> TRUE, show |-> s],
    body |-> RelayBody(Some(FALSE))] : s \in BOOLEAN}
  \cup {[config |-> [variant |-> "simple", force |-> FALSE, show |-> TRUE],
         body |-> RelayBody(s)] : s \in {Some(TRUE), Absent}}
  \cup {[config |-> [variant |-> "server", force |-> FALSE, show |-> TRUE],
         body |-> RelayBody(Some(FALSE))]}

Rejections ==
  {[kind |-> "http", status |-> 429, detail |-> Some("rate limited"),
    message |-> "Request failed with status code 429"],
   [kind |-> "http", status |-> 404, detail |-> Absent,
    message |-> "Request failed with status code 404"],
   [kind |-> "http", status |-> 503, detail |-> Some(""),
    message |-> "Request failed with status code 503"],
   [kind |-> "transport", status |-> 0, detail |-> Absent,
    message |-> "timeout of 180000ms exceeded"],
   [kind |-> "transport", status |-> 0, detail |-> Absent, message |-> ""]}

Choice(i, content) ==
  [index |-> i, role |-> "assistant", content |-> content, finish_reason |-> "stop"]

Bodies ==
  {[choices |-> Some(<<Choice(0, Some("hello"))>>),
    usage |-> Some([prompt_tokens |-> 3, completion_tokens |-> 2, total_tokens |-> 5])],
   [choices |-> Some(<<Choice(0, Absent)>>), usage |-> Absent],
   [choices |-> Some(<<Choice(0, Some("a")), Choice(1, Some(""))>>), usage |-> Absent],
   [choices |-> Absent, usage |-> Absent]}

\* the lines an upstream stream is made of (without their newline)
UpstreamLines ==
  {DataPrefix \o <<"J">>,
   DataPrefix \o <<"R">>,
   DataPrefix \o <<"E">>,
   DataPrefix \o <<"S">>,
   DataPrefix \o <<"X">>,
   DataPrefix \o <<"U">>,
   DataPrefix \o <<"N">>,
   DataPrefix \o DONE,
   DataPrefix \o <<"J", " ", "\r">>,
   DataPrefix,
   <<>>}

\* an unterminated last line, as the stream ends or breaks
UpstreamTails == {DataPrefix \o <<"J">>}

\* the texts of up to n lines, each closed by its newline
RECURSIVE LineSeqs(_)
LineSeqs(n) ==
  IF n = 0 THEN {<<>>}
  ELSE LET shorter == LineSeqs(n - 1) IN
       shorter \cup {s \o l \o <<NL>> : s \in shorter, l \in UpstreamLines}

\* up to MaxLines lines, the last of which may lack its newline
Streams ==
  LineSeqs(MaxLines)
    \cup {s \o t : s \in LineSeqs(MaxLines - 1), t \in UpstreamTails}

----------------------------------------------------------------------------
(* The state after construction: a request has arrived, the handler has   *)
(* not run yet.                                                            *)

InitHandler(inputs) ==
  /\ \E i \in inputs :
       /\ variant = i.config.variant
       /\ FORCE_STREAMING = i.config.force
       /\ SHOW_THINKING = i.config.show
       /\ req = i.body
  /\ pc = "start"
  /\ nimRequest = Absent
  /\ axiosConfig = Absent
  /\ error = NoError
  /\ resStatus = 200
  /\ resHeaders = "none"
  /\ resBody = Absent
  /\ out = <<>>
  /\ resEnded = 0
  /\ upstream = <<>>
  /\ pos = 0
  /\ streamState = "none"
  /\ destroyed = FALSE
  /\ buffer = <<>>
  /\ responseData = Absent
  /\ clientClosed = FALSE

\* one request, no other in flight
InitWith(inputs) ==
  /\ InitHandler(inputs)
  /\ relays = <<>>
  /\ buffers = <<>>

Init == InitWith(RelayInputs)

InitRequest == InitWith([config : Configs, body : Requests])

----------------------------------------------------------------------------
(* Actions *)

\* catch (error) { ... res.status(status).json({error: ...}) }
Catch(e) ==
  /\ error' = e
  /\ resStatus' = ErrorStatus(e)
  /\ resBody' = Some(ErrorEnvelope(e, req))
  /\ resEnded' = resEnded + 1
  /\ pc' = "done"

TypeError(msg) ==
  [kind |-> "TypeError", status |-> 0, detail |-> Absent, message |-> msg]

\* the handler up to `await axios.post(...)`
Receive ==
  /\ pc = "start"
  /\ IF ResolveThrows(variant, req.model)
       THEN /\ Catch(TypeError("nimModel.includes is not a function"))
            /\ resHeaders' = "application/json"
            /\ UNCHANGED <<nimRequest, axiosConfig>>
       ELSE /\ nimRequest' = Some(BuildRequest(variant, FORCE_STREAMING, req))
            /\ axiosConfig' = Some(BuildConfig(variant, FORCE_STREAMING, req))
            /\ pc' = "awaiting"
            /\ UNCHANGED <<error, resStatus, resHeaders, resBody, resEnded>>
  /\ UNCHANGED <<reqVars, relays, buffers, responseData, out, upstream, pos, streamState, destroyed, buffer,
                 clientClosed>>

\* axios.post rejects: a non-2xx answer, a timeout, a connection error.
\* With responseType 'stream' error.response.data is a stream: no detail.
AxiosReject(e) ==
  /\ pc = "awaiting"
  /\ Catch(IF axiosConfig[1].responseType = "stream"
             THEN [e EXCEPT !.detail = Absent] ELSE e)
  /\ resHeaders' = "application/json"
  /\ UNCHANGED <<reqVars, relays, buffers, responseData, nimRequest, axiosConfig, out, upstream, pos,
                 streamState, destroyed, buffer, clientClosed>>

\* axios.post resolves with a parsed JSON body
AxiosResolveJson(data) ==
  /\ pc = "awaiting"
  /\ axiosConfig[1].responseType = "json"
  /\ responseData' = Some(data)
  /\ IF StreamBranch(variant, FORCE_STREAMING, req)
       THEN /\ Catch(TypeError("response.data.on is not a function"))
            /\ resHeaders' = "text/event-stream"
       ELSE IF data.choices = Absent
         THEN /\ Catch(TypeError("Cannot read properties of undefined (reading 'map')"))
              /\ resHeaders' = "application/json"
         ELSE /\ resBody' = Some(Reshape(data, req))
              /\ resHeaders' = "application/json"
              /\ resEnded' = resEnded + 1
              /\ pc' = "done"
              /\ UNCHANGED <<error, resStatus>>
  /\ UNCHANGED <<reqVars, relays, buffers, nimRequest, axiosConfig, out, upstream, pos,
                 streamState, destroyed, buffer, clientClosed>>

\* axios.post resolves with a stream: the SSE headers are set and the
\* handlers registered
AxiosResolveStream(text) ==
  /\ pc = "awaiting"
  /\ axiosConfig[1].responseType = "stream"
  /\ IF StreamBranch(variant, FORCE_STREAMING, req)
       THEN /\ resHeaders' = "text/event-stream"
            /\ buffer' = <<>>
            /\ upstream' = text
            /\ pos' = 0
            /\ streamState' = "flowing"
            /\ pc' = "streaming"
            /\ UNCHANGED <<error, resStatus, resBody, resEnded>>
       ELSE /\ Catch(TypeError("Cannot read properties of undefined (reading 'map')"))
            /\ resHeaders' = "application/json"
            /\ UNCHANGED <<buffer, upstream, pos, streamState>>
  /\ UNCHANGED <<reqVars, relays, buffers, responseData, nimRequest, axiosConfig, out, destroyed, clientClosed>>

\* response.data.on('data', chunk => ...), chunk being the next k characters
OnData(k) ==
  /\ pc = "streaming"
  /\ streamState = "flowing"
  /\ ~destroyed
  /\ LET chunk == SubSeq(upstream, pos + 1, pos + k)
         lines == Split(buffer \o chunk)
     IN /\ buffer' = Remainder(lines)
        /\ out' = out \o Written("data",
                        ForwardAll(variant, SHOW_THINKING, CompleteLines(lines)))
  /\ pos' = pos + k
  /\ UNCHANGED <<reqVars, relays, buffers, responseData, pc, nimRequest, axiosConfig, error, resStatus,
                 resHeaders, resBody, resEnded, upstream, streamState,
                 destroyed, clientClosed>>

\* an 'end' handler that first forwards what is left in the buffer
EndWritesFlushed(v) ==
  Forward(v, SHOW_THINKING, buffer) \o (IF v = "server" THEN <<Event(DONE)>> ELSE <<>>)

\* what the 'end' handler writes before res.end()
EndWrites(v) == IF v = "server" THEN <<Event(DONE)>> ELSE <<>>

\* response.data.on('end', ...): the backend has sent everything
OnEnd ==
  /\ pc = "streaming"
  /\ streamState = "flowing"
  /\ ~destroyed
  /\ pos = Len(upstream)
  /\ out' = out \o Written("end", EndWrites(variant))
  /\ resEnded' = resEnded + 1
  /\ streamState' = "ended"
  /\ UNCHANGED <<reqVars, relays, buffers, responseData, pc, nimRequest, axiosConfig, error, resStatus,
                 resHeaders, resBody, upstream, pos, destroyed, buffer,
                 clientClosed>>

\* an 'error' handler that closes the stream the way 'end' does
ErrorWritesDone(v) == <<Event(DONE)>>

\* what the 'error' handler writes before res.end()
ErrorWrites(v) == <<>>

\* response.data.on('error', ...): the backend connection broke
OnError ==
  /\ pc = "streaming"
  /\ streamState = "flowing"
  /\ ~destroyed
  /\ out' = out \o Written("error", ErrorWrites(variant))
  /\ resEnded' = resEnded + 1
  /\ streamState' = "errored"
  /\ UNCHANGED <<reqVars, relays, buffers, responseData, pc, nimRequest, axiosConfig, error, resStatus,
                 resHeaders, resBody, upstream, pos, destroyed, buffer,
                 clientClosed>>

\* a close handler that leaves the backend stream alone
CloseDestroysNothing(v, at) == FALSE

\* req.on('close', ...) is registered by src/server.js alone, and only once
\* the streaming branch is reached
CloseDestroys(v, at) == v = "server" /\ at = "streaming"

\* the client disconnects: the request's 'close' event
OnClose ==
  /\ pc \in {"awaiting", "streaming"}
  /\ ~clientClosed
  /\ clientClosed' = TRUE
  /\ destroyed' = (destroyed \/ CloseDestroys(variant, pc))
  /\ UNCHANGED <<reqVars, relays, buffers, responseData, pc, nimRequest, axiosConfig, error, resStatus,
                 resHeaders, resBody, out, resEnded, upstream, pos,
                 streamState, buffer>>

Next ==
  \/ Receive
  \/ \E e \in Rejections : AxiosReject(e)
  \/ \E data \in Bodies : AxiosResolveJson(data)
  \/ \E text \in Streams : AxiosResolveStream(text)
  \/ \E k \in 0..(Len(upstream) - pos) : OnData(k)
  \/ OnEnd
  \/ OnError
  \/ OnClose

Spec == Init /\ [][Next]_vars

\* the request and error paths over every request of Requests, up to the
\* entry into the relay of a backend stream (followed no further here)
NextRequest ==
  \/ Receive
  \/ \E e \in Rejections : AxiosReject(e)
  \/ \E data \in Bodies : AxiosResolveJson(data)
  \/ \E text \in LineSeqs(0) : AxiosResolveStream(text)
  \/ OnClose

SpecRequest == InitRequest /\ [][NextRequest]_vars

----------------------------------------------------------------------------
(* Several streaming requests in flight: each invocation of the handler   *)
(* has its own `let buffer` (src/server.js 185) and its own handlers; the *)
(* toggles and MODEL_MAPPING are module-level constants (17-24).          *)

MaxRelays == 2

Relayers == 1..MaxRelays

\* the backend streams of the requests in flight
PairStreams ==
  {DataPrefix \o <<"J", NL>>,
   DataPrefix \o <<"R", NL, "d", "a">>,
   DataPrefix \o <<"X", NL, "d">>}

PairInputs ==
  {[config |-> [variant |-> "server", force |-> TRUE, show |-> s],
    body |-> RelayBody(Some(TRUE))] : s \in BOOLEAN}
  \cup {[config |-> [variant |-> "simple", force |-> FALSE, show |-> TRUE],
         body |-> RelayBody(Some(TRUE))]}

\* every request has reached the streaming branch: `let buffer = ''`
InitPair ==
  /\ InitHandler(PairInputs)
  /\ relays \in [Relayers -> [upstream : PairStreams, pos : {0}, out : {<<>>},
                              streamState : {"flowing"}]]
  /\ buffers = [r \in Relayers |-> <<>>]

\* a buffer declared at module level, one for all requests
BufferOfModule(r) == 1

\* the binding the handlers of request r close over
BufferOf(r) == r

\* the 'data' handler of request r, chunk being its next k characters
RelayOnData(r, k) ==
  /\ relays[r].streamState = "flowing"
  /\ LET b == BufferOf(r)
         chunk == SubSeq(relays[r].upstream, relays[r].pos + 1, relays[r].pos + k)
         lines == Split(buffers[b] \o chunk)
     IN /\ buffers' = [buffers EXCEPT ![b] = Remainder(lines)]
        /\ relays' = [relays EXCEPT
              ![r].pos = @ + k,
              ![r].out = @ \o Written("data",
                           ForwardAll(variant, SHOW_THINKING, CompleteLines(lines)))]
  /\ UNCHANGED <<reqVars, responseData, pc, nimRequest, axiosConfig, error, resStatus,
                 resHeaders, resBody, out, resEnded, upstream, pos,
                 streamState, destroyed, buffer, clientClosed>>

\* the 'end' handler of request r
RelayOnEnd(r) ==
  /\ relays[r].streamState = "flowing"
  /\ relays[r].pos = Len(relays[r].upstream)
  /\ relays' = [relays EXCEPT
        ![r].out = @ \o Written("end", EndWrites(variant)),
        ![r].streamState = "ended"]
  /\ UNCHANGED <<reqVars, responseData, pc, nimRequest, axiosConfig, error, resStatus,
                 resHeaders, resBody, out, resEnded, upstream, pos,
                 streamState, destroyed, buffer, clientClosed, buffers>>

\* the event loop runs one handler at a time, of any request
NextPair ==
  \/ \E r \in Relayers :
        \E k \in 0..(Len(relays[r].upstream) - relays[r].pos) : RelayOnData(r, k)
  \/ \E r \in Relayers : RelayOnEnd(r)

SpecPair == InitPair /\ [][NextPair]_vars

----------------------------------------------------------------------------
(* Properties of the streaming relay (specification Spec) *)

\* the upstream text delivered so far
received == SubSeq(upstream, 1, pos)

\* the lines of the delivered text whose newline has arrived
ReceivedLines == Front(Split(received))

IsDataWrite(w) == w.by = "data"
dataOut == SelectSeq(out, IsDataWrite)
Texts(ws) == [i \in 1..Len(ws) |-> ws[i].text]

\* the payload of a written event: the text between `data: ` and the
\* newlines that close the write
WrittenPayload(text) ==
  LET body == {i \in 1..Len(text) : text[i] # NL} IN
  IF body = {} THEN <<>> ELSE Substring(SubSeq(text, 1, SetMax(body)), 6)

Payloads(ws) == [i \in 1..Len(ws) |-> WrittenPayload(ws[i].text)]

IsDoneWrite(w) == WrittenPayload(w.text) = DONE

relaying == pc = "streaming"

\* C1 (as claimed): when the upstream stream has ended normally, the writes
\* hold exactly one `data: [DONE]` event and it is the last write.
C1_ExactlyOneDoneLast ==
  (relaying /\ streamState = "ended") =>
     /\ Len(SelectSeq(out, IsDoneWrite)) = 1
     /\ out # <<>>
     /\ IsDoneWrite(Last(out))

\* C2: fragmentation invariance.  However the delivered text was cut into
\* chunks, the writes are those of the handler run on the whole text as one
\* chunk; after 'end' they are followed by what the end handler writes.
C2_FragmentationInvariance ==
  relaying =>
     /\ Texts(dataOut) = ForwardAll(variant, SHOW_THINKING, Front(Split(received)))
     /\ streamState = "ended" =>
          Texts(out) = ForwardAll(variant, SHOW_THINKING, Front(Split(upstream)))
                         \o EndWrites(variant)

\* C2 witness: an event has been forwarded and the next chunk was cut inside
\* the `data: ` prefix of the following line.
C2_Witness ==
  /\ relaying
  /\ streamState = "flowing"
  /\ Len(out) = 1
  /\ buffer = <<"d", "a", "t">>

\* C3: no partial event.  Every write of the data handler is the event of a
\* line whose newline has been received, there are no more such writes than
\* newlines received, and a chunk without a newline writes nothing and is
\* appended to the buffer.
NewlinesIn(text) == Cardinality({i \in 1..Len(text) : text[i] = NL})

C3_NoPartialEvent ==
  /\ [](relaying =>
         /\ Len(dataOut) <= NewlinesIn(received)
         /\ \A i \in 1..Len(dataOut) :
              \E j \in 1..Len(ReceivedLines) :
                 <<dataOut[i].text>> = Forward(variant, SHOW_THINKING, ReceivedLines[j]))
  /\ [][(relaying /\ pos' > pos /\ NewlinesIn(SubSeq(upstream, pos + 1, pos')) = 0)
          => /\ out' = out
             /\ buffer' = buffer \o SubSeq(upstream, pos + 1, pos')]_vars

\* C3 witness: a whole payload has arrived without its newline; it sits in
\* the buffer and nothing has been written.
C3_Witness ==
  /\ relaying
  /\ variant = "server"
  /\ buffer = DataPrefix \o <<"J">>
  /\ received = buffer
  /\ out = <<>>

\* the reasoning_content fields of the choices of a parsed payload
ReasoningFields(payload) ==
  LET parsed == JSONparse(payload) IN
  IF ~parsed.ok \/ parsed.choices = Absent THEN <<>>
  ELSE [i \in 1..Len(parsed.choices[1]) |->
          IF parsed.choices[1][i].delta = Absent THEN Absent
          ELSE parsed.choices[1][i].delta[1].reasoning_content]

suppressing == relaying /\ variant = "server" /\ ~SHOW_THINKING

C5_CloseStopsWrites ==
  /\ [][(relaying /\ variant = "server" /\ ~clientClosed /\ clientClosed')
          => destroyed']_vars
  /\ [][(relaying /\ variant = "server" /\ destroyed)
          => (out' = out /\ destroyed')]_vars

\* C5 witness: the client left in the middle of the relay, after an event
\* was written and before the backend had sent everything.
C5_Witness ==
  /\ relaying
  /\ variant = "server"
  /\ clientClosed
  /\ destroyed
  /\ streamState = "flowing"
  /\ out # <<>>
  /\ pos < Len(upstream)

\* C6: an upstream 'error' ends the response, and its handler writes
\* nothing: no [DONE] and nothing of the unterminated line in the buffer.
C6_ErrorEndsWithoutWrites ==
  /\ [][(relaying /\ streamState = "flowing" /\ streamState' = "errored")
          => (out' = out /\ resEnded' = resEnded + 1)]_vars
  /\ [](relaying /\ streamState = "errored" =>
          /\ resEnded = 1
          /\ out = dataOut
          /\ Texts(out) = ForwardAll(variant, SHOW_THINKING, ReceivedLines))

\* C6 witness: the stream broke with an unterminated line in the buffer,
\* after an event had been written.
C6_Witness ==
  /\ relaying
  /\ streamState = "errored"
  /\ buffer = DataPrefix \o <<"J">>
  /\ Len(out) = 1

\* the payloads of the lines that start with `data: `, as received
RECURSIVE RawPayloads(_)
RawPayloads(lines) ==
  IF lines = <<>> THEN <<>>
  ELSE (IF StartsWith(Head(lines), DataPrefix)
          THEN <<Substring(Head(lines), 6)>> ELSE <<>>)
       \o RawPayloads(Tail(lines))

\* the payloads of the lines that start with `data: ` once trimmed
RECURSIVE TrimmedPayloads(_)
TrimmedPayloads(lines) ==
  IF lines = <<>> THEN <<>>
  ELSE (IF StartsWith(Trim(Head(lines)), DataPrefix)
          THEN <<Substring(Trim(Head(lines)), 6)>> ELSE <<>>)
       \o TrimmedPayloads(Tail(lines))

\* a payload the data handler cannot inspect: no JSON text, or JSON without
\* a first choice
Anomalous(payload) ==
  /\ payload # DONE
  /\ LET parsed == JSONparse(payload) IN
     \/ ~parsed.ok
     \/ parsed.null
     \/ parsed.choices = Absent
     \/ Len(parsed.choices[1]) = 0

\* a payload the reasoning filter lets through
Kept(payload) ==
  \/ SHOW_THINKING
  \/ Len(ReasoningFields(payload)) = 0
  \/ ReasoningFields(payload)[1] \in {Absent, Some("")}

serving == relaying /\ variant = "server"

showing == relaying /\ variant = "server" /\ SHOW_THINKING

\* C7 (as claimed): with SHOW_THINKING true the payloads written by the
\* data handler are the payloads of the complete `data: ` lines received,
\* in order and unchanged.
C7_PayloadsUnchanged ==
  showing => Payloads(dataOut) = RawPayloads(ReceivedLines)

\* C7 (amended): they are the payloads of the complete lines that start
\* with `data: ` after trimming, each trimmed of surrounding white space,
\* in order, none lost and none repeated.
C7_TrimmedPayloadsInOrder ==
  showing => Payloads(dataOut) = TrimmedPayloads(ReceivedLines)

\* C7 witness: two different events were relayed, one of them received with
\* trailing white space.
C7_Witness ==
  /\ showing
  /\ received = DataPrefix \o <<"R", NL>> \o DataPrefix \o <<"J", " ", "\r", NL>>
  /\ Payloads(dataOut) = <<<<"R">>, <<"J">>>>

\* C12 (as claimed): every complete line that starts with `data: ` and
\* whose payload is neither [DONE] nor JSON with a first choice is written
\* with its payload as received; it neither ends the response nor produces
\* an error envelope.
C12_MalformedPassedRaw ==
  serving =>
    /\ SelectSeq(Payloads(dataOut), Anomalous)
         = SelectSeq(RawPayloads(ReceivedLines), Anomalous)
    /\ resBody = Absent
    /\ error = NoError
    /\ streamState = "flowing" => resEnded = 0

\* C12 (amended): every complete line that starts with `data: ` once
\* trimmed and whose trimmed payload is neither [DONE] nor JSON with a first
\* choice is written with that trimmed payload; it neither ends the
\* response nor produces an error envelope, and the lines after it are
\* handled as usual.
C12_MalformedPassedTrimmed ==
  serving =>
    /\ SelectSeq(Payloads(dataOut), Anomalous)
         = SelectSeq(TrimmedPayloads(ReceivedLines), Anomalous)
    /\ Payloads(dataOut) = SelectSeq(TrimmedPayloads(ReceivedLines), Kept)
    /\ resBody = Absent
    /\ error = NoError
    /\ streamState = "flowing" => resEnded = 0

\* C12 witness: a cut-off payload was written as it came, and the event
\* after it was relayed; the stream is still open.
C12_Witness ==
  /\ serving
  /\ ~SHOW_THINKING
  /\ streamState = "flowing"
  /\ received = DataPrefix \o <<"X", NL>> \o DataPrefix \o <<"J", NL>>
  /\ Payloads(dataOut) = <<<<"X">>, <<"J">>>>

\* one `data: <payload>` line followed by a blank line, and nothing else
Framed(text) ==
  /\ Len(text) >= Len(DataPrefix) + 2
  /\ StartsWith(text, DataPrefix)
  /\ {i \in 1..Len(text) : text[i] = NL} = {Len(text) - 1, Len(text)}

\* C13 (as claimed): in both variants every write to the downstream
\* connection is one `data: <payload>` line followed by a blank line, so
\* that any two consecutive events are separated by an empty line.
C13_EveryEventFramed ==
  relaying => \A i \in 1..Len(out) : Framed(out[i].text)

\* the part of a text after its last newline: all of it if it has none
AfterLastNewline(text) ==
  LET at == {i \in 1..Len(text) : text[i] = NL} IN
  IF at = {} THEN text ELSE SubSeq(text, SetMax(at) + 1, Len(text))

\* C16: after every chunk the buffer holds no newline and is the part of
\* the text received so far that follows its last newline.
C16_BufferIsOpenTail ==
  relaying =>
    /\ \A i \in 1..Len(buffer) : buffer[i] # NL
    /\ buffer = AfterLastNewline(received)

\* C16 witness: an event and the start of the next line have arrived; the
\* buffer holds that start, white space included.
C16_Witness ==
  /\ relaying
  /\ received = DataPrefix \o <<"J", NL>> \o DataPrefix
  /\ buffer = DataPrefix
  /\ Len(out) = 1

IsEndWrite(w) == w.by = "end"

\* C17: when the backend stream ends normally with text left in the
\* buffer, that text is written by no handler, not even when it is a whole
\* `data: ` payload: the data handler has written the events of the
\* newline-terminated lines only, and the end handler writes the one
\* `data: [DONE]` event in src/server.js and nothing in the simple variant.
C17_TailDiscardedAtEnd ==
  (relaying /\ streamState = "ended" /\ buffer # <<>>) =>
    /\ resEnded = 1
    /\ Texts(dataOut) = ForwardAll(variant, SHOW_THINKING, ReceivedLines)
    /\ Len(dataOut) <= NewlinesIn(upstream)
    /\ Texts(SelectSeq(out, IsEndWrite))
         = (IF variant = "server" THEN <<DataPrefix \o DONE \o <<NL, NL>>>> ELSE <<>>)
    /\ out = dataOut \o SelectSeq(out, IsEndWrite)

\* C17 witness: the stream of src/server.js ended after a whole payload
\* that lacked its newline; only the closing [DONE] was written.
C17_Witness ==
  /\ relaying
  /\ variant = "server"
  /\ streamState = "ended"
  /\ upstream = DataPrefix \o <<"J">>
  /\ buffer = DataPrefix \o <<"J">>
  /\ Payloads(out) = <<DONE>>

\* C18: in src/server.js, whatever the order of the data, end, error and
\* close events, once the SSE headers are set the response is ended at most
\* once and carries no error envelope, and once it has been ended nothing
\* more is written and it is not ended again.
C18_EndedOnceNoLateWrites ==
  /\ []((variant = "server" /\ resHeaders = "text/event-stream") =>
          /\ resEnded <= 1
          /\ resBody = Absent
          /\ error = NoError
          /\ resStatus = 200)
  /\ [][(serving /\ resEnded >= 1) => (out' = out /\ resEnded' = resEnded)]_vars

\* C18 witness: the backend stream ended after an event was relayed, and
\* the client disconnected after that.
C18_Witness ==
  /\ serving
  /\ streamState = "ended"
  /\ clientClosed
  /\ destroyed
  /\ resEnded = 1
  /\ Len(dataOut) >= 1

\* C19 (as claimed): in src/server.js a client disconnect cancels the relay
\* also when it happens while the outbound call is pending: whenever the
\* client is gone and the backend stream is at hand, that stream has been
\* destroyed (so that nothing of it is written).
C19_EarlyCloseCancels ==
  (serving /\ clientClosed) => destroyed

----------------------------------------------------------------------------
(* Properties of requests in flight side by side (specification SpecPair) *)

\* what request r has received so far
relayReceived(r) == SubSeq(relays[r].upstream, 1, relays[r].pos)

\* what a request alone writes for a delivered text, and once it has ended
AloneData(text) == ForwardAll(variant, SHOW_THINKING, Front(Split(text)))
AloneEnded(text) == AloneData(text) \o EndWrites(variant)

\* C15: whatever the interleaving of the chunks of the requests in flight,
\* each request has written what it would have written alone and holds in
\* its buffer the unterminated tail of its own text; a step of one request
\* leaves the buffer and the writes of the others alone; no step changes
\* the toggles.
C15_RequestIsolation ==
  /\ [](\A r \in DOMAIN relays :
          /\ buffers[r] = Last(Split(relayReceived(r)))
          /\ relays[r].streamState = "flowing" =>
               Texts(relays[r].out) = AloneData(relayReceived(r))
          /\ relays[r].streamState = "ended" =>
               Texts(relays[r].out) = AloneEnded(relays[r].upstream))
  /\ [][\A r \in DOMAIN relays :
          relays'[r].pos = relays[r].pos =>
             (buffers'[r] = buffers[r] /\ relays'[r].out \in {relays[r].out,
                 relays[r].out \o Written("end", EndWrites(variant))})]_vars
  /\ [][UNCHANGED <<variant, FORCE_STREAMING, SHOW_THINKING>>]_vars

\* C15 witness: two requests are in the middle of different streams, each
\* has written an event, and each holds a different unterminated tail.
C15_Witness ==
  /\ Len(relays) >= 2
  /\ relays[1].upstream # relays[2].upstream
  /\ relays[1].out # <<>>
  /\ relays[2].out # <<>>
  /\ buffers[1] # <<>>
  /\ buffers[2] # <<>>
  /\ buffers[1] # buffers[2]

----------------------------------------------------------------------------
(* Properties of the request and error paths (specification SpecRequest) *)

\* the handler has gone past model resolution and request building
resolved == pc # "start"

\* C8 (as claimed): a key of MODEL_MAPPING resolves to its mapped value, any
\* other client string to itself, and resolution never fails.
C8_ModelResolution ==
  resolved =>
     /\ nimRequest # Absent
     /\ nimRequest[1].model =
          [t |-> "string",
           s |-> IF req.model \in DOMAIN MODEL_MAPPING(variant)
                   THEN MODEL_MAPPING(variant)[req.model] ELSE req.model]

\* C9 (as claimed): a supplied temperature or max_tokens is sent as it is,
\* 0 included; the default is used only for an absent field; messages are
\* forwarded unchanged.
C9_AbsentOnlyDefaults ==
  nimRequest # Absent =>
     /\ nimRequest[1].temperature =
          (IF req.temperature = Absent THEN DefaultTemperature(variant)
                                       ELSE req.temperature[1])
     /\ nimRequest[1].max_tokens =
          (IF req.max_tokens = Absent THEN DefaultMaxTokens ELSE req.max_tokens[1])
     /\ nimRequest[1].messages = req.messages

\* the outbound call was made and the request ended in the catch block
outboundFailed == pc = "done" /\ nimRequest # Absent /\ error.kind # "none"

\* C10: when the outbound call fails, the downstream status (and the code
\* of the envelope) is the backend's status if it answered with one and 500
\* otherwise, and model_attempted is the model string the client sent.
C10_ErrorMapping ==
  outboundFailed =>
     /\ resStatus = (IF error.kind = "http" THEN error.status ELSE 500)
     /\ resBody # Absent
     /\ resBody[1].kind = "error"
     /\ resBody[1].code = resStatus
     /\ resBody[1].model_attempted = req.model

\* C10 witness: the backend answered 429 to a request whose model name is
\* mapped to another backend name.
C10_Witness ==
  /\ outboundFailed
  /\ error.kind = "http"
  /\ error.status = 429
  /\ resStatus = 429
  /\ req.model = "gpt-4"
  /\ nimRequest[1].model.s # req.model

----------------------------------------------------------------------------
(* Properties of the non-streaming answer (specification SpecRequest) *)

\* the streaming policy: ForceOn streams always, ClientControlled when the
\* client's stream field is true
streamWanted == FORCE_STREAMING \/ req.stream = Some(TRUE)

answered == pc = "done" /\ error.kind = "none" /\ responseData # Absent

\* C11: the non-streaming answer has one choice per backend choice, in the
\* same order and with the same index, role and finish_reason; its content
\* is the backend's, or the empty string when the backend choice has none;
\* its usage is the backend's, or three zeros when the backend sent none;
\* its model is the name the client asked for.
C11_ReshapePreserves ==
  answered =>
    LET data == responseData[1]
        body == resBody[1]
    IN /\ resStatus = 200
       /\ body.kind = "chat.completion"
       /\ body.model = req.model
       /\ Len(body.choices) = Len(data.choices[1])
       /\ \A i \in 1..Len(body.choices) :
            LET theirs == data.choices[1][i]
                ours == body.choices[i]
            IN /\ ours.index = theirs.index
               /\ ours.message.role = theirs.role
               /\ ours.finish_reason = theirs.finish_reason
               /\ theirs.content = Absent => ours.message.content = ""
               /\ theirs.content # Absent => ours.message.content = theirs.content[1]
       /\ data.usage = Absent =>
            /\ body.usage.prompt_tokens = 0
            /\ body.usage.completion_tokens = 0
            /\ body.usage.total_tokens = 0
       /\ data.usage # Absent => body.usage = data.usage[1]

\* a mapped name is asked for, and the backend's answer has two choices,
\* one with empty content, and no usage
C11_Witness ==
  /\ answered
  /\ req.model = "gpt-4"
  /\ Len(responseData[1].choices[1]) = 2
  /\ responseData[1].usage = Absent
  /\ resBody[1].choices[2].message.content = ""
  /\ resBody[1].usage.total_tokens = 0

====
